---- MODULE Spec2Model ----
(***************************************************************************)
(* A model of the near-Earth-object package: models.py (NearEarthObject,   *)
(* CloseApproach), extract.py (load_neos, load_approaches) and write.py    *)
(* (write_to_csv, write_to_json).                                          *)
(*                                                                         *)
(* Python objects live in `heap`: an address is an index of the heap, and  *)
(* an object is the mapping of its attributes (its __dict__); a dict is    *)
(* the mapping of its keys.  Every Python value is a record with the same  *)
(* four fields, so that values of different Python types can be compared.  *)
(***************************************************************************)
EXTENDS Integers, Sequences, FiniteSets, TLC

VARIABLES
    heap,            \* address -> attribute mapping of the object at the address
    neo_collection,  \* the list load_neos returned (addresses)
    ca_collection,   \* the list load_approaches returned (addresses)
    pc,              \* where the calling program is
    lastOp,          \* the last call made
    neo_csv,         \* the rows of the CSV file given to load_neos
    cad_json,        \* contents["data"] of the JSON file given to load_approaches
    info,            \* the keyword arguments of the last direct constructor call
    results,         \* the close approaches given to the last export / the receiver
    raised,          \* the exception the last call propagated, "" when none
    ret,             \* what the last serialize() / fullname returned
    outfile          \* the content of the file the last export wrote

vars == <<heap, neo_collection, ca_collection, pc, lastOp, neo_csv, cad_json,
          info, results, raised, ret, outfile>>

----------------------------------------------------------------------------
(* Bounds of the model *)

MaxNeos == 2
MaxApproaches == 2

----------------------------------------------------------------------------
(* Python values *)

None == [tag |-> "none", s |-> "", n |-> 0, l |-> <<>>]
Str(x) == [tag |-> "str", s |-> x, n |-> 0, l |-> <<>>]
\* a float with two decimals, held in hundredths
Float(x) == [tag |-> "float", s |-> "", n |-> x, l |-> <<>>]
NaN == [tag |-> "float", s |-> "nan", n |-> 0, l |-> <<>>]
Bool(b) == [tag |-> "bool", s |-> "", n |-> IF b THEN 1 ELSE 0, l |-> <<>>]
\* a reference to the object at address a
Ref(a) == [tag |-> "ref", s |-> "", n |-> a, l |-> <<>>]
\* a list of object addresses
List(q) == [tag |-> "list", s |-> "", n |-> 0, l |-> q]
\* a datetime <<year, month, day, hour, minute>>
DateTime(t) == [tag |-> "datetime", s |-> "", n |-> 0, l |-> t]
\* the set literal {v} of one string
SetOf(v) == [tag |-> "set", s |-> v.s, n |-> 0, l |-> <<>>]
\* a keyword that is not given
Absent == [tag |-> "absent", s |-> "", n |-> 0, l |-> <<>>]

\* bool(v)
Truthy(v) ==
    CASE v.tag = "none" -> FALSE
      [] v.tag = "str" -> v.s # ""
      [] v.tag = "float" -> v.s = "nan" \/ v.n # 0
      [] v.tag = "bool" -> v.n = 1
      [] v.tag = "list" -> v.l # <<>>
      [] OTHER -> TRUE

\* dict.get(key, default)
Get(d, key, default) == IF key \in DOMAIN d THEN d[key] ELSE default

\* d[key] = v
DictSet(d, key, v) == [k \in DOMAIN d \cup {key} |-> IF k = key THEN v ELSE d[k]]

\* del d[key]
DictDel(d, key) == [k \in DOMAIN d \ {key} |-> d[k]]

Ok(v) == [raised |-> "", val |-> v]
Raise(e) == [raised |-> e, val |-> None]

\* the decimal literals of the model and the float each denotes, in hundredths
FloatLiterals == {"16.84", "0.5", "0.50", "10.0", "0.0", "0", "1.5"}
FloatLiteralValue(x) ==
    CASE x = "16.84" -> 1684
      [] x = "0.5" -> 50
      [] x = "0.50" -> 50
      [] x = "10.0" -> 1000
      [] x = "0.0" -> 0
      [] x = "0" -> 0
      [] x = "1.5" -> 150

\* float(v)
PyFloat(v) ==
    CASE v.tag = "float" -> Ok(v)
      [] v.tag = "str" ->
            IF v.s \in FloatLiterals THEN Ok(Float(FloatLiteralValue(v.s)))
            ELSE IF v.s \in {"nan", "NaN"} THEN Ok(NaN)
            ELSE Raise("ValueError")
      [] OTHER -> Raise("TypeError")

Pad2(k) == IF k < 10 THEN "0" \o ToString(k) ELSE ToString(k)

\* str(v) of a float, a bool, a string or None
PyStr(v) ==
    CASE v.tag = "str" -> v.s
      [] v.tag = "none" -> "None"
      [] v.tag = "bool" -> IF v.n = 1 THEN "True" ELSE "False"
      [] v.tag = "float" ->
            IF v.s = "nan" THEN "nan"
            ELSE ToString(v.n \div 100) \o "." \o
                 (IF v.n % 10 = 0 THEN ToString((v.n % 100) \div 10)
                  ELSE Pad2(v.n % 100))
      [] OTHER -> "<object>"

----------------------------------------------------------------------------
(* helpers.py: cd_to_datetime and datetime_to_str, which models.py imports *)

MonthNames == <<"Jan", "Feb", "Mar", "Apr", "May", "Jun",
                "Jul", "Aug", "Sep", "Oct", "Nov", "Dec">>

\* the calendar-date codes of the model and their fields
TimeCodes == {"2020-Jan-01 00:00", "2020-Feb-29 12:30"}
TimeCodeFields(x) ==
    CASE x = "2020-Jan-01 00:00" -> <<2020, "Jan", 1, 0, 0>>
      [] x = "2020-Feb-29 12:30" -> <<2020, "Feb", 29, 12, 30>>

MonthNumber(name) == CHOOSE m \in 1..12 : MonthNames[m] = name

\* datetime.strptime(calendar_date, "%Y-%b-%d %H:%M")
cd_to_datetime(v) ==
    IF v.tag # "str" THEN Raise("TypeError")
    ELSE IF v.s \notin TimeCodes THEN Raise("ValueError")
    ELSE LET f == TimeCodeFields(v.s)
         IN  Ok(DateTime(<<f[1], MonthNumber(f[2]), f[3], f[4], f[5]>>))

\* datetime.strftime(dt, "%Y-%m-%d %H:%M")
datetime_to_str(v) ==
    LET t == v.l
    IN  ToString(t[1]) \o "-" \o Pad2(t[2]) \o "-" \o Pad2(t[3]) \o " " \o
        Pad2(t[4]) \o ":" \o Pad2(t[5])

----------------------------------------------------------------------------
(* models.py: NearEarthObject *)

\* self.name = info.get('name') if info.get('name') else None
NeoName(kw) == IF Truthy(Get(kw, "name", None)) THEN Get(kw, "name", None) ELSE None

\* self.diameter = float(info.get('diameter', 'nan'))
NeoDiameter(kw) == PyFloat(Get(kw, "diameter", Str("nan")))

\* a variant of NeoHazardous that takes the marker in either case
NeoHazardous_anycase(kw) ==
    Bool(Get(kw, "hazardous", Str("N")) \in {Str("Y"), Str("y")})

\* self.hazardous = True if info.get('hazardous', 'N') == 'Y' else False
NeoHazardous(kw) == Bool(Get(kw, "hazardous", Str("N")) = Str("Y"))

\* NearEarthObject(**kw): the new object, or the exception of float()
NearEarthObject_init(kw) ==
    LET d == NeoDiameter(kw)
    IN  IF d.raised # "" THEN [raised |-> d.raised, obj |-> <<>>]
        ELSE [raised |-> "",
              obj |-> [class |-> Str("NearEarthObject"),
                       designation |-> Get(kw, "designation", None),
                       name |-> NeoName(kw),
                       diameter |-> d.val,
                       hazardous |-> NeoHazardous(kw),
                       approaches |-> List(<<>>)]]

\* NearEarthObject.fullname of the object o
fullname(o) ==
    IF Truthy(o.name)
    THEN Str(PyStr(o.designation) \o " (" \o PyStr(o.name) \o ")")
    ELSE SetOf(o.designation)

----------------------------------------------------------------------------
(* models.py: CloseApproach *)

\* CloseApproach(**kw): the new object, or the first exception of the
\* conversions, in the order of the assignments
CloseApproach_init(kw) ==
    LET t == cd_to_datetime(Get(kw, "time", None))
        d == PyFloat(Get(kw, "distance", None))
        v == PyFloat(Get(kw, "velocity", None))
    IN  IF t.raised # "" THEN [raised |-> t.raised, obj |-> <<>>]
        ELSE IF d.raised # "" THEN [raised |-> d.raised, obj |-> <<>>]
        ELSE IF v.raised # "" THEN [raised |-> v.raised, obj |-> <<>>]
        ELSE [raised |-> "",
              obj |-> [class |-> Str("CloseApproach"),
                       _designation |-> Get(kw, "designation", None),
                       time |-> t.val,
                       distance |-> d.val,
                       velocity |-> v.val,
                       neo |-> Get(kw, "neo", None)]]

\* CloseApproach.time_str
time_str(o) == datetime_to_str(o.time)

\* the heap after a fresh object is allocated, and the address it got
Alloc(h, o) == [heap |-> Append(h, o), addr |-> Len(h) + 1]

\* the heap with the object at address a replaced by o
Store(h, a, o) == [h EXCEPT ![a] = o]

\* NearEarthObject.serialize() of the object at address a: a new dict
NearEarthObject_serialize(h, a) ==
    LET o == h[a]
        d1 == DictSet(<<>>, "potentially_hazardous", o.hazardous)
        d2 == DictSet(d1, "diameter_km", o.diameter)
        d3 == DictSet(d2, "name", IF Truthy(o.name) THEN o.name ELSE Str(""))
        d4 == DictSet(d3, "designation", o.designation)
    IN  Alloc(h, d4)

\* a variant of CloseApproach.serialize that leaves the time under its first key
CloseApproach_serialize_time(h, a) ==
    LET o == h[a]
        d1 == DictSet(<<>>, "distance_au", o.distance)
        d2 == DictSet(d1, "velocity_km_s", o.velocity)
        d3 == DictSet(d2, "time", Str(datetime_to_str(o.time)))
        d5 == DictSet(d3, "_designation", o._designation)
    IN  Alloc(h, d5)

\* a variant of CloseApproach.serialize that returns the object's own
\* attribute mapping (return self.__dict__) instead of a new dict
CloseApproach_serialize_self(h, a) == [heap |-> h, addr |-> a]

\* CloseApproach.serialize() of the object at address a: a new dict
CloseApproach_serialize(h, a) ==
    LET o == h[a]
        d1 == DictSet(<<>>, "distance_au", o.distance)
        d2 == DictSet(d1, "velocity_km_s", o.velocity)
        d3 == DictSet(d2, "time", Str(datetime_to_str(o.time)))
        d4 == DictSet(DictDel(d3, "time"), "datetime_utc", d3["time"])
        d5 == DictSet(d4, "_designation", o._designation)
    IN  Alloc(h, d5)

----------------------------------------------------------------------------
(* extract.py *)

\* row of csv.DictReader -> keyword arguments of NearEarthObject
NeoParams(elem) ==
    [designation |-> elem["pdes"],
     name |-> elem["name"],
     hazardous |-> elem["pha"],
     diameter |-> IF Truthy(elem["diameter"]) THEN elem["diameter"] ELSE Str("nan")]

\* the loop of load_neos over the rows left, neo_collection being coll
RECURSIVE load_neos_loop(_, _, _)
load_neos_loop(h, coll, rows) ==
    IF rows = <<>> THEN [raised |-> "", heap |-> h, val |-> coll]
    ELSE LET r == NearEarthObject_init(NeoParams(Head(rows)))
         IN  IF r.raised # "" THEN [raised |-> r.raised, heap |-> h, val |-> <<>>]
             ELSE load_neos_loop(Append(h, r.obj), Append(coll, Len(h) + 1), Tail(rows))

load_neos(h, rows) == load_neos_loop(h, <<>>, rows)

\* record of contents["data"] -> keyword arguments of CloseApproach
ApproachParams(key) ==
    [designation |-> key[1], time |-> key[4], distance |-> key[5], velocity |-> key[8]]

\* the loop of load_approaches over the records left, ca_collection being coll
RECURSIVE load_approaches_loop(_, _, _)
load_approaches_loop(h, coll, rows) ==
    IF rows = <<>> THEN [raised |-> "", heap |-> h, val |-> coll]
    ELSE LET r == CloseApproach_init(ApproachParams(Head(rows)))
         IN  IF r.raised # "" THEN [raised |-> r.raised, heap |-> h, val |-> <<>>]
             ELSE load_approaches_loop(Append(h, r.obj), Append(coll, Len(h) + 1),
                                       Tail(rows))

\* a variant of load_approaches that skips the records it cannot construct
RECURSIVE load_approaches_skipping_loop(_, _, _)
load_approaches_skipping_loop(h, coll, rows) ==
    IF rows = <<>> THEN [raised |-> "", heap |-> h, val |-> coll]
    ELSE LET r == CloseApproach_init(ApproachParams(Head(rows)))
         IN  IF r.raised # "" THEN load_approaches_skipping_loop(h, coll, Tail(rows))
             ELSE load_approaches_skipping_loop(Append(h, r.obj),
                                                Append(coll, Len(h) + 1), Tail(rows))

load_approaches_skipping(h, rows) == load_approaches_skipping_loop(h, <<>>, rows)

load_approaches(h, rows) == load_approaches_loop(h, <<>>, rows)

----------------------------------------------------------------------------
(* NEODatabase: the linking of the two collections by designation *)

SetMax(S) == CHOOSE x \in S : \A y \in S : y <= x

\* the NEO a designation maps to once every NEO of the collection was entered
\* in the designation mapping in order; 0 when there is none
NeoByDesignation(h, neos, des) ==
    LET at == {i \in 1..Len(neos) : h[neos[i]].designation = des}
    IN  IF at = {} THEN 0 ELSE neos[SetMax(at)]

RECURSIVE link_loop(_, _, _)
link_loop(h, neos, cas) ==
    IF cas = <<>> THEN h
    ELSE LET ca == Head(cas)
             neo == NeoByDesignation(h, neos, h[ca]._designation)
         IN  IF neo = 0 THEN link_loop(h, neos, Tail(cas))
             ELSE LET h1 == Store(h, ca, [h[ca] EXCEPT !.neo = Ref(neo)])
                      h2 == Store(h1, neo,
                                  [h1[neo] EXCEPT !.approaches =
                                      List(Append(h1[neo].approaches.l, ca))])
                  IN  link_loop(h2, neos, Tail(cas))

----------------------------------------------------------------------------
(* write.py *)

fieldnames == <<"datetime_utc", "distance_au", "velocity_km_s", "designation",
                "name", "diameter_km", "potentially_hazardous">>

\* what csv.writer writes for a field: None as the empty field, the rest as str()
CsvField(v) == IF v.tag = "none" THEN "" ELSE PyStr(v)

\* neo_name = ca.neo.name if ca.neo.diameter else ''
CsvNeoName(neo) == IF Truthy(neo.diameter) THEN neo.name ELSE Str("")

\* the row write_to_csv writes for the close approach at address ca
CsvRow(h, ca) ==
    LET o == h[ca]
        neo == h[o.neo.n]
        time == Str(time_str(o))
        distance == o.distance
        velocity == o.velocity
        neo_diameter == Str(PyStr(neo.diameter))
        neo_name == CsvNeoName(neo)
        neo_hazardous == Str(PyStr(neo.hazardous))
    IN  <<CsvField(time), CsvField(distance), CsvField(velocity),
          CsvField(o._designation), CsvField(neo_name), CsvField(neo_diameter),
          CsvField(neo_hazardous)>>

\* the loop of write_to_csv: ca.neo.diameter of an absent neo raises, and the
\* rows written so far stay in the file
RECURSIVE write_to_csv_loop(_, _, _)
write_to_csv_loop(h, rows, res) ==
    IF res = <<>> THEN [raised |-> "", file |-> rows]
    ELSE IF h[Head(res)].neo.tag # "ref"
         THEN [raised |-> "AttributeError", file |-> rows]
         ELSE write_to_csv_loop(h, Append(rows, CsvRow(h, Head(res))), Tail(res))

write_to_csv(h, res) == write_to_csv_loop(h, <<fieldnames>>, res)

\* a variant of HasNeo without the test
HasNeo_unchecked(o) == TRUE

\* if ca.neo:
HasNeo(o) == Truthy(o.neo)

\* the first loop of write_to_json: serialize every close approach, and its
\* NEO when it has one
RECURSIVE json_serialize_loop(_, _, _, _)
json_serialize_loop(h, cas, neos, res) ==
    IF res = <<>> THEN [raised |-> "", heap |-> h, cas |-> cas, neos |-> neos]
    ELSE LET ca == Head(res)
             c == CloseApproach_serialize(h, ca)
         IN  IF ~HasNeo(h[ca])
             THEN json_serialize_loop(c.heap, Append(cas, c.addr), neos, Tail(res))
             ELSE IF h[ca].neo.tag # "ref"
             THEN [raised |-> "AttributeError", heap |-> c.heap,
                   cas |-> Append(cas, c.addr), neos |-> neos]
             ELSE LET n == NearEarthObject_serialize(c.heap, h[ca].neo.n)
                  IN  json_serialize_loop(n.heap, Append(cas, c.addr),
                                          Append(neos, n.addr), Tail(res))

\* a variant of JoinMatches that takes any serialized NEO
JoinMatches_any(neo, ca) == TRUE

\* if neo['designation'] == ca['_designation']:
JoinMatches(neo, ca) == neo["designation"] = ca["_designation"]

\* for neo in serialized_neos: ... ca['neo'] = neo
RECURSIVE json_attach_loop(_, _, _)
json_attach_loop(h, ca, neos) ==
    IF neos = <<>> THEN h
    ELSE IF JoinMatches(h[Head(neos)], h[ca])
         THEN json_attach_loop(Store(h, ca, DictSet(h[ca], "neo", Ref(Head(neos)))),
                               ca, Tail(neos))
         ELSE json_attach_loop(h, ca, Tail(neos))

\* for ca in serialized_cas: ... del ca['_designation']
RECURSIVE json_join_loop(_, _, _)
json_join_loop(h, cas, neos) ==
    IF cas = <<>> THEN h
    ELSE LET h1 == json_attach_loop(h, Head(cas), neos)
             h2 == Store(h1, Head(cas), DictDel(h1[Head(cas)], "_designation"))
         IN  json_join_loop(h2, Tail(cas), neos)

\* what json.dump writes for the dict at address a: its keys, nested dicts inline
RECURSIVE JsonObject(_, _)
JsonObject(h, a) ==
    [k \in DOMAIN h[a] |->
        IF h[a][k].tag = "ref" THEN JsonObject(h, h[a][k].n) ELSE h[a][k]]

write_to_json(h, res) ==
    LET s == json_serialize_loop(h, <<>>, <<>>, res)
    IN  IF s.raised # "" THEN [raised |-> s.raised, heap |-> s.heap, file |-> <<>>]
        ELSE LET j == json_join_loop(s.heap, s.cas, s.neos)
             IN  [raised |-> "", heap |-> j,
                  file |-> [i \in 1..Len(s.cas) |-> JsonObject(j, s.cas[i])]]

----------------------------------------------------------------------------
(* The inputs of the model *)

\* a row of the NEO file as csv.DictReader yields it
NeoRow(pdes, name, pha, diameter) ==
    [pdes |-> Str(pdes), name |-> Str(name), pha |-> Str(pha),
     diameter |-> Str(diameter)]

NeoRows ==
    {NeoRow("433", "Eros", "N", "16.84"),
     NeoRow("887", "", "Y", ""),
     NeoRow("719", "Albert", "N", "0.0")}

\* a record of the close-approach file: des, orbit_id, jd, cd, dist, dist_min,
\* dist_max, v_rel
CadRow(des, cd, dist, v_rel) ==
    <<Str(des), Str("1"), Str("2458849.5"), Str(cd), dist, dist, dist, v_rel>>

GoodCadRows ==
    {CadRow("433", "2020-Jan-01 00:00", Str("0.5"), Str("10.0")),
     CadRow("887", "2020-Feb-29 12:30", Str("0.50"), Str("1.5")),
     CadRow("719", "2020-Jan-01 00:00", Str("1.5"), Str("10.0"))}

\* records whose distance or velocity is absent or no number
BadCadRows ==
    {CadRow("433", "2020-Jan-01 00:00", Str("abc"), Str("10.0")),
     CadRow("433", "2020-Jan-01 00:00", None, Str("10.0")),
     CadRow("433", "2020-Jan-01 00:00", Str("0.5"), Str(""))}

CadRows == GoodCadRows \cup BadCadRows

\* the sequences over S of length at most k
SeqsUpTo(S, k) == UNION {[1..j -> S] : j \in 0..k}

\* keyword arguments: the fields that are given
Kwargs(fields) == [k \in {x \in DOMAIN fields : fields[x] # Absent} |-> fields[k]]

NeoKwargs ==
    {Kwargs([designation |-> Str("433"), name |-> nm, diameter |-> dm, hazardous |-> hz]) :
        nm \in {Absent, Str(""), Str("Eros")},
        dm \in {Absent, Str(""), Str("16.84"), Str("0.50"), Str("0"), Str("abc")},
        hz \in {Absent, Str("Y"), Str("N"), Str("y"), Str("")}}

CaKwargs ==
    {Kwargs([designation |-> Str("433"), time |-> Str("2020-Jan-01 00:00"),
             distance |-> ds, velocity |-> vl]) :
        ds \in {Absent, Str("0.5"), Str("abc"), Str("")},
        vl \in {Absent, Str("10.0"), Str("fast")}}

\* the members of a collection at the positions S, in the collection's order
RECURSIVE Pick(_, _, _)
Pick(coll, S, i) ==
    IF i > Len(coll) THEN <<>>
    ELSE IF i \in S THEN <<coll[i]>> \o Pick(coll, S, i + 1)
    ELSE Pick(coll, S, i + 1)

\* what a query can yield: the members that match, in the collection's order
Selections(coll) == {Pick(coll, S, 1) : S \in SUBSET (1..Len(coll))}

IsNeo(a) == heap[a]["class"] = Str("NearEarthObject")
IsCa(a) == heap[a]["class"] = Str("CloseApproach")

----------------------------------------------------------------------------
(* The calls *)

Init ==
    /\ heap = <<>>
    /\ neo_collection = <<>>
    /\ ca_collection = <<>>
    /\ pc = "start"
    /\ lastOp = ""
    /\ neo_csv = <<>>
    /\ cad_json = <<>>
    /\ info = <<>>
    /\ results = <<>>
    /\ raised = ""
    /\ ret = <<>>
    /\ outfile = <<>>

\* NearEarthObject(**kw), called directly
ConstructNeo(kw) ==
    /\ pc = "start"
    /\ LET r == NearEarthObject_init(kw)
       IN  /\ raised' = r.raised
           /\ heap' = IF r.raised = "" THEN Append(heap, r.obj) ELSE heap
    /\ pc' = "constructed"
    /\ lastOp' = "NearEarthObject"
    /\ info' = kw
    /\ UNCHANGED <<neo_collection, ca_collection, neo_csv, cad_json, results, ret,
                   outfile>>

\* CloseApproach(**kw), called directly
ConstructCloseApproach(kw) ==
    /\ pc = "start"
    /\ LET r == CloseApproach_init(kw)
       IN  /\ raised' = r.raised
           /\ heap' = IF r.raised = "" THEN Append(heap, r.obj) ELSE heap
    /\ pc' = "constructed"
    /\ lastOp' = "CloseApproach"
    /\ info' = kw
    /\ UNCHANGED <<neo_collection, ca_collection, neo_csv, cad_json, results, ret,
                   outfile>>

\* neos = load_neos(path) on a file of the rows
LoadNeos(rows) ==
    /\ pc = "start"
    /\ LET r == load_neos(heap, rows)
       IN  /\ raised' = r.raised
           /\ heap' = IF r.raised = "" THEN r.heap ELSE heap
           /\ neo_collection' = r.val
           /\ pc' = IF r.raised = "" THEN "neos_loaded" ELSE "load_failed"
    /\ lastOp' = "load_neos"
    /\ neo_csv' = rows
    /\ UNCHANGED <<ca_collection, cad_json, info, results, ret, outfile>>

\* approaches = load_approaches(path) on a file of the records
LoadApproaches(rows) ==
    /\ pc = "neos_loaded"
    /\ LET r == load_approaches(heap, rows)
       IN  /\ raised' = r.raised
           /\ heap' = IF r.raised = "" THEN r.heap ELSE heap
           /\ ca_collection' = r.val
           /\ pc' = IF r.raised = "" THEN "approaches_loaded" ELSE "load_failed"
    /\ lastOp' = "load_approaches"
    /\ cad_json' = rows
    /\ UNCHANGED <<neo_collection, neo_csv, info, results, ret, outfile>>

\* the linking of the loaded collections
Link ==
    /\ pc = "approaches_loaded"
    /\ heap' = link_loop(heap, neo_collection, ca_collection)
    /\ pc' = "linked"
    /\ lastOp' = "link"
    /\ UNCHANGED <<neo_collection, ca_collection, neo_csv, cad_json, info, results,
                   raised, ret, outfile>>

\* neo.fullname
GetFullname(a) ==
    /\ pc \in {"constructed", "linked"}
    /\ IsNeo(a)
    /\ lastOp' = "fullname"
    /\ results' = <<a>>
    /\ ret' = fullname(heap[a])
    /\ raised' = ""
    /\ outfile' = <<>>
    /\ UNCHANGED <<heap, neo_collection, ca_collection, pc, neo_csv, cad_json, info>>

\* neo.serialize(); the dict is dropped once the caller has looked at it
SerializeNeo(a) ==
    /\ pc \in {"constructed", "linked"}
    /\ IsNeo(a)
    /\ LET r == NearEarthObject_serialize(heap, a)
       IN  /\ ret' = r.heap[r.addr]
           /\ heap' = SubSeq(r.heap, 1, Len(heap))
    /\ lastOp' = "NearEarthObject.serialize"
    /\ results' = <<a>>
    /\ raised' = ""
    /\ outfile' = <<>>
    /\ UNCHANGED <<neo_collection, ca_collection, pc, neo_csv, cad_json, info>>

\* approach.serialize(); the dict is dropped once the caller has looked at it
SerializeCa(a) ==
    /\ pc \in {"constructed", "linked"}
    /\ IsCa(a)
    /\ LET r == CloseApproach_serialize(heap, a)
       IN  /\ ret' = r.heap[r.addr]
           /\ heap' = SubSeq(r.heap, 1, Len(heap))
    /\ lastOp' = "CloseApproach.serialize"
    /\ results' = <<a>>
    /\ raised' = ""
    /\ outfile' = <<>>
    /\ UNCHANGED <<neo_collection, ca_collection, pc, neo_csv, cad_json, info>>

\* write_to_csv(res, filename)
WriteToCsv(res) ==
    /\ pc = "linked"
    /\ LET r == write_to_csv(heap, res)
       IN  /\ raised' = r.raised
           /\ outfile' = r.file
    /\ lastOp' = "write_to_csv"
    /\ results' = res
    /\ ret' = <<>>
    /\ UNCHANGED <<heap, neo_collection, ca_collection, pc, neo_csv, cad_json, info>>

\* write_to_json(res, filename); the dicts it made are dropped when it returns
WriteToJson(res) ==
    /\ pc = "linked"
    /\ LET r == write_to_json(heap, res)
       IN  /\ raised' = r.raised
           /\ outfile' = r.file
           /\ heap' = SubSeq(r.heap, 1, Len(heap))
    /\ lastOp' = "write_to_json"
    /\ results' = res
    /\ ret' = <<>>
    /\ UNCHANGED <<neo_collection, ca_collection, pc, neo_csv, cad_json, info>>

Next ==
    \/ \E kw \in NeoKwargs : ConstructNeo(kw)
    \/ \E kw \in CaKwargs : ConstructCloseApproach(kw)
    \/ \E rows \in SeqsUpTo(NeoRows, MaxNeos) : LoadNeos(rows)
    \/ \E rows \in SeqsUpTo(CadRows, MaxApproaches) : LoadApproaches(rows)
    \/ Link
    \/ \E a \in 1..Len(heap) : GetFullname(a)
    \/ \E a \in 1..Len(heap) : SerializeNeo(a)
    \/ \E a \in 1..Len(heap) : SerializeCa(a)
    \/ \E res \in Selections(ca_collection) : WriteToCsv(res)
    \/ \E res \in Selections(ca_collection) : WriteToJson(res)

Spec == Init /\ [][Next]_vars

----------------------------------------------------------------------------
(* The claims *)

\* the text of a name, "" when the name is absent
NameText(o) == IF o.name = None THEN "" ELSE o.name.s

\* the serialization a NEO object is to have
ExpectedNeo(o) ==
    [designation |-> o.designation,
     name |-> Str(NameText(o)),
     diameter_km |-> o.diameter,
     potentially_hazardous |-> o.hazardous]

\* a distance or velocity that is absent or not a number
Malformed(v) == v \in {None, Str(""), Str("abc"), Str("fast")}

MalformedRecord(key) == Malformed(key[5]) \/ Malformed(key[8])

\* C1: fullname is a string: the bare designation for a NEO without a name,
\* "<designation> (<name>)" for a NEO with a name.
C1_FullnameIsString ==
    lastOp = "fullname" =>
        LET o == heap[results[1]]
        IN  /\ ret.tag = "str"
            /\ ret.s = IF o.name = None THEN o.designation.s
                       ELSE o.designation.s \o " (" \o o.name.s \o ")"

\* C2: constructing a NearEarthObject never fails on an absent or empty
\* diameter and gives not-a-number then; a decimal string gives its value; and
\* the diameter is not-a-number only when the field was absent or empty.
C2_DiameterNeverFails ==
    lastOp = "NearEarthObject" =>
        LET given == "diameter" \in DOMAIN info /\ info["diameter"] # Str("")
        IN  /\ ~given => raised = "" /\ heap[1].diameter = NaN
            /\ (given /\ info["diameter"].s \in FloatLiterals) =>
                   /\ raised = ""
                   /\ heap[1].diameter = Float(FloatLiteralValue(info["diameter"].s))
            /\ (raised = "" /\ heap[1].diameter = NaN) => ~given

\* C3: write_to_csv writes the header and then one row per close approach of
\* the sequence, in its order, whether resolved or not, without stopping early.
C3_CsvOneRowPerApproach ==
    lastOp = "write_to_csv" =>
        /\ raised = ""
        /\ Len(outfile) = Len(results) + 1
        /\ outfile[1] = fieldnames
        /\ \A i \in 1..Len(results) :
              LET o == heap[results[i]]
              IN  /\ Len(outfile[i + 1]) = Len(fieldnames)
                  /\ outfile[i + 1][1] = datetime_to_str(o.time)
                  /\ outfile[i + 1][4] = o._designation.s

\* C4: in every data row of write_to_csv the name column is the NEO's name,
\* empty exactly when the NEO has no name, whatever its diameter.
C4_CsvNameColumn ==
    lastOp = "write_to_csv" =>
        \A i \in 2..Len(outfile) :
            outfile[i][5] = NameText(heap[heap[results[i - 1]].neo.n])

\* C5 as stated: CloseApproach.serialize() has exactly the keys designation,
\* datetime_utc, distance_au, velocity_km_s, and NearEarthObject.serialize()
\* exactly designation, name, diameter_km, potentially_hazardous, the name
\* being the empty string when the NEO has none.
C5_SerializeKeysAsClaimed ==
    /\ lastOp = "CloseApproach.serialize" =>
          /\ DOMAIN ret = {"designation", "datetime_utc", "distance_au", "velocity_km_s"}
          /\ ret["designation"] = heap[results[1]]._designation
    /\ lastOp = "NearEarthObject.serialize" => ret = ExpectedNeo(heap[results[1]])

\* C5 amended: the joining key of CloseApproach.serialize() is _designation;
\* the rest is as stated.
C5_SerializeKeys ==
    /\ lastOp = "CloseApproach.serialize" =>
          /\ DOMAIN ret = {"_designation", "datetime_utc", "distance_au", "velocity_km_s"}
          /\ ret["_designation"] = heap[results[1]]._designation
          /\ ret["datetime_utc"] = Str(datetime_to_str(heap[results[1]].time))
          /\ ret["distance_au"] = heap[results[1]].distance
          /\ ret["velocity_km_s"] = heap[results[1]].velocity
    /\ lastOp = "NearEarthObject.serialize" => ret = ExpectedNeo(heap[results[1]])

C5_Witness ==
    /\ lastOp = "CloseApproach.serialize"
    /\ pc = "linked"
    /\ ret["_designation"] = Str("887")
    /\ heap[results[1]].neo # None

\* C6: the i-th object write_to_json writes is the i-th close approach's, holds
\* its datetime_utc, distance_au and velocity_km_s and, when it has a NEO, the
\* serialization of that NEO, whose designation is the close approach's; no
\* object holds the joining key.
C6_JsonCarriesOwnNeo ==
    (lastOp = "write_to_json" /\ raised = "") =>
        /\ Len(outfile) = Len(results)
        /\ \A i \in 1..Len(results) :
              LET ca == heap[results[i]]
                  o == outfile[i]
              IN  /\ {"datetime_utc", "distance_au", "velocity_km_s"} \subseteq DOMAIN o
                  /\ o["datetime_utc"] = Str(datetime_to_str(ca.time))
                  /\ o["distance_au"] = ca.distance
                  /\ o["velocity_km_s"] = ca.velocity
                  /\ "_designation" \notin DOMAIN o
                  /\ "designation" \notin DOMAIN o
                  /\ ca.neo # None =>
                        /\ "neo" \in DOMAIN o
                        /\ o["neo"] = ExpectedNeo(heap[ca.neo.n])
                        /\ heap[ca.neo.n].designation = ca._designation

C6_Witness ==
    /\ lastOp = "write_to_json"
    /\ Len(results) = 2
    /\ Len(outfile) = 2
    /\ "neo" \in DOMAIN outfile[1]
    /\ "neo" \in DOMAIN outfile[2]
    /\ outfile[1]["neo"]["designation"] # outfile[2]["neo"]["designation"]

\* C7: write_to_json does not fail on an unresolved close approach: it writes
\* it with its datetime_utc, distance_au and velocity_km_s and without a neo,
\* also beside resolved close approaches.
C7_JsonUnresolvedWritten ==
    lastOp = "write_to_json" =>
        /\ raised = ""
        /\ Len(outfile) = Len(results)
        /\ \A i \in 1..Len(results) :
              LET ca == heap[results[i]]
                  o == outfile[i]
              IN  ca.neo = None =>
                     /\ DOMAIN o = {"datetime_utc", "distance_au", "velocity_km_s"}
                     /\ o["datetime_utc"] = Str(datetime_to_str(ca.time))
                     /\ o["distance_au"] = ca.distance
                     /\ o["velocity_km_s"] = ca.velocity

C7_Witness ==
    /\ lastOp = "write_to_json"
    /\ Len(results) = 2
    /\ \E i, j \in 1..2 :
          /\ heap[results[i]].neo = None
          /\ heap[results[j]].neo # None
          /\ "neo" \in DOMAIN outfile[j]

\* C8: a CloseApproach whose distance or velocity is absent or no number is
\* not constructed, the error reaches the caller; load_approaches on a file
\* with such a record returns no collection, neither the earlier records nor
\* the rest.
C8_MalformedApproachAborts ==
    /\ (/\ lastOp = "CloseApproach"
        /\ \/ Malformed(Get(info, "distance", None))
           \/ Malformed(Get(info, "velocity", None)))
          => raised \in {"ValueError", "TypeError"} /\ heap = <<>>
    /\ (lastOp = "load_approaches" /\ \E i \in DOMAIN cad_json : MalformedRecord(cad_json[i]))
          => /\ raised \in {"ValueError", "TypeError"}
             /\ pc = "load_failed"
             /\ ca_collection = <<>>
             /\ \A a \in DOMAIN heap : ~IsCa(a)

C8_Witness ==
    /\ lastOp = "load_approaches"
    /\ Len(cad_json) = 2
    /\ ~MalformedRecord(cad_json[1])
    /\ MalformedRecord(cad_json[2])
    /\ pc = "load_failed"

\* C9: hazardous is true exactly when the marker given is "Y"; any other
\* marker and no marker give false, and no marker makes the construction fail.
C9_HazardousIffY ==
    /\ (lastOp = "NearEarthObject" /\ raised = "") =>
          heap[1].hazardous = Bool(Get(info, "hazardous", Absent) = Str("Y"))
    /\ (lastOp = "NearEarthObject" /\ raised # "") =>
          Get(info, "diameter", Absent) \in {Str(""), Str("abc")}
    /\ pc \in {"neos_loaded", "approaches_loaded", "linked"} =>
          /\ Len(neo_collection) = Len(neo_csv)
          /\ \A i \in DOMAIN neo_csv :
                heap[neo_collection[i]].hazardous = Bool(neo_csv[i]["pha"] = Str("Y"))

C9_Witness ==
    /\ lastOp = "NearEarthObject"
    /\ Get(info, "hazardous", Absent) = Str("y")
    /\ raised = ""
    /\ heap[1].hazardous = Bool(FALSE)

\* C10: serialize(), write_to_csv and write_to_json leave every object and
\* both collections as they were, and the same export made again writes the
\* same content.
C10_ExportsChangeNothing ==
    [][lastOp' \in {"NearEarthObject.serialize", "CloseApproach.serialize",
                    "write_to_csv", "write_to_json"} =>
          /\ heap' = heap
          /\ neo_collection' = neo_collection
          /\ ca_collection' = ca_collection
          /\ (lastOp' = lastOp /\ results' = results) =>
                (outfile' = outfile /\ ret' = ret /\ raised' = raised)]_vars

C10_Witness ==
    /\ lastOp = "write_to_json"
    /\ Len(results) = 2
    /\ Len(outfile) = 2
    /\ "neo" \in DOMAIN outfile[1]
    /\ "_designation" \notin DOMAIN outfile[1]
    /\ heap[results[1]]._designation = Str("433")
    /\ heap[results[1]].neo = heap[results[2]].neo

====
